---- MODULE Spec2Model ----
(***************************************************************************)
(* A model of create_video.py: the asset scanner                           *)
(* (find_max_segment_number), the segment builder and concatenation        *)
(* planner (process_language) and the language orchestrator (main).        *)
(*                                                                         *)
(* File names are sequences of one-character strings, so that the glob     *)
(* patterns, Path.stem, str.split('_'), str.endswith and int() of the      *)
(* source are computed character by character and the f-string formatting  *)
(* of an index is a real conversion.                                       *)
(*                                                                         *)
(* Modelling assumptions: the content directory is not changed by anybody  *)
(* else while the program runs, so that what find_max_segment_number       *)
(* returns for it is fixed when the run starts (scanOf); the               *)
(* operating-system calls the code does not guard succeed, but for the     *)
(* mkdir of line 184, whose parent folder is a path of one user's machine; *)
(* every ffmpeg invocation that is started returns. Whether the ffmpeg     *)
(* executable is found is decided at each call, as subprocess.run decides  *)
(* it.                                                                     *)
(***************************************************************************)
EXTENDS Integers, Sequences, FiniteSets, TLC

\* ------------------------------------------------------------------ bounds

\* The regular assets of a directory carry the indices 1..MaxIdx.
MaxIdx == 3

\* At most this many irregular file names are present in a directory.
MaxOdd == 1

\* ----------------------------------------------------------------- strings

sAudio == <<"a", "u", "d", "i", "o", "_">>
sImage == <<"i", "m", "a", "g", "e", "_">>
sSegment == <<"s", "e", "g", "m", "e", "n", "t">>
sWav == <<".", "w", "a", "v">>
sPng == <<".", "p", "n", "g">>
sMp4 == <<".", "m", "p", "4">>
sOld == <<"_", "o", "l", "d">>
sAbc == <<"a", "b", "c">>

\* The two values of audio_suffix that main passes (lines 201 and 206).
NoSuffix == <<>>
EsSuffix == <<"_", "e", "s">>
Suffixes == {NoSuffix, EsSuffix}

DigitChars == <<"0", "1", "2", "3", "4", "5", "6", "7", "8", "9">>

DigitValue(c) == (CHOOSE d \in 1..10 : DigitChars[d] = c) - 1

IsDigit(c) == \E d \in 1..10 : DigitChars[d] = c

\* f"{i}" for an integer i >= 0: its decimal digits, without padding.
RECURSIVE FormatInt(_)
FormatInt(n) ==
    IF n < 10 THEN <<DigitChars[n + 1]>>
    ELSE FormatInt(n \div 10) \o <<DigitChars[(n % 10) + 1]>>

StartsWith(s, p) == Len(s) >= Len(p) /\ SubSeq(s, 1, Len(p)) = p

\* str.endswith
EndsWith(s, p) == Len(s) >= Len(p) /\ SubSeq(s, Len(s) - Len(p) + 1, Len(s)) = p

\* The position of the last "." of a name that starts a suffix, or 0:
\* pathlib takes no suffix from a leading or a trailing dot.
LastDot(name) ==
    LET dots == {k \in 2..(Len(name) - 1) : name[k] = "."}
    IN IF dots = {} THEN 0 ELSE CHOOSE k \in dots : \A j \in dots : j <= k

\* Path.stem: the name without its last suffix.
Stem(name) ==
    IF LastDot(name) = 0 THEN name ELSE SubSeq(name, 1, LastDot(name) - 1)

\* str.split('_'): the pieces between the underscores, empty pieces included.
RECURSIVE Split(_)
Split(s) ==
    LET us == {k \in 1..Len(s) : s[k] = "_"}
    IN IF us = {} THEN <<s>>
       ELSE LET k == CHOOSE x \in us : \A y \in us : x <= y
            IN <<SubSeq(s, 1, k - 1)>> \o Split(SubSeq(s, k + 1, Len(s)))

\* A glob pattern of the form <prefix>*<suffix> (the two patterns of
\* lines 41 and 44 have this form): the star takes any run of characters.
GlobMatch(name, prefix, suffix) ==
    /\ Len(name) >= Len(prefix) + Len(suffix)
    /\ StartsWith(name, prefix)
    /\ EndsWith(name, suffix)

\* str.strip() of blanks, which int() applies to its argument.
RECURSIVE Strip(_)
Strip(s) ==
    IF s # <<>> /\ Head(s) = " " THEN Strip(Tail(s))
    ELSE IF s # <<>> /\ s[Len(s)] = " " THEN Strip(SubSeq(s, 1, Len(s) - 1))
    ELSE s

RECURSIVE DigitsValue(_)
DigitsValue(s) ==
    IF s = <<>> THEN 0
    ELSE 10 * DigitsValue(SubSeq(s, 1, Len(s) - 1)) + DigitValue(s[Len(s)])

\* int(token) raises ValueError unless the token is an optional sign and
\* one or more digits (blanks around them are stripped).
IntParses(token) ==
    LET t == Strip(token)
        d == IF t # <<>> /\ Head(t) \in {"+", "-"} THEN Tail(t) ELSE t
    IN d # <<>> /\ \A k \in 1..Len(d) : IsDigit(d[k])

IntValue(token) ==
    LET t == Strip(token)
    IN IF t # <<>> /\ Head(t) = "-" THEN 0 - DigitsValue(Tail(t))
       ELSE IF t # <<>> /\ Head(t) = "+" THEN DigitsValue(Tail(t))
       ELSE DigitsValue(t)

\* ------------------------------------------------------------- file names

\* Lines 80-85: the names process_language builds.
ImageName(i) == sImage \o FormatInt(i) \o sPng
AudioName(i, suffix) == sAudio \o FormatInt(i) \o suffix \o sWav
SegmentName(i, suffix) == sSegment \o suffix \o <<"_">> \o FormatInt(i) \o sMp4

\* Line 132: the line of the concatenation list that names a segment file
\* (the absolute path of segments/ is left out of the model).
ManifestLine(segment_file) ==
    <<"f", "i", "l", "e", " ", "'">> \o segment_file \o <<"'", "\n">>

\* ---------------------------------------------------------------- scanner

\* AudioFiles without the exclusion of line 45: the default variant takes
\* every match of audio_*.wav.
AudioFilesNoExclusion(dir, audio_suffix) ==
    IF audio_suffix # <<>>
    THEN {f \in dir : GlobMatch(f, sAudio, audio_suffix \o sWav)}
    ELSE {g \in dir : GlobMatch(g, sAudio, sWav)}

\* Lines 40-45: the candidate audio files of a variant.
AudioFiles(dir, audio_suffix) ==
    IF audio_suffix # <<>>
    THEN {f \in dir : GlobMatch(f, sAudio, audio_suffix \o sWav)}
    ELSE {f \in {g \in dir : GlobMatch(g, sAudio, sWav)} :
            ~EndsWith(Stem(f), EsSuffix)}

\* Lines 53-59: the number parsed from one candidate, or 0 when int() or
\* the indexing raises (such a file leaves max_segment as it is).
SegmentNum(f) ==
    LET parts == Split(Stem(f))
    IN IF Len(parts) >= 2 /\ IntParses(parts[2]) THEN IntValue(parts[2]) ELSE 0

Max0(S) == IF S = {} THEN 0 ELSE CHOOSE m \in S : \A x \in S : x <= m

\* Lines 38-61: find_max_segment_number.
find_max_segment_number(dir, audio_suffix) ==
    Max0({0} \cup {SegmentNum(f) : f \in AudioFiles(dir, audio_suffix)})

\* ------------------------------------------------------------ environment

\* The assets a content directory may hold under the naming convention:
\* any of the images and default-variant audio files of 1..MaxIdx, and
\* the `_es` audio files of 1..e for some e.
RegularDirectories ==
    {img \cup aud \cup {AudioName(k, EsSuffix) : k \in 1..e} :
        img \in SUBSET {ImageName(k) : k \in 1..MaxIdx},
        aud \in SUBSET {AudioName(k, NoSuffix) : k \in 1..MaxIdx},
        e \in 0..MaxIdx}

\* Other names a directory may hold: audio_abc.wav and audio_<n>_old.wav.
ExtraFiles ==
    { sAudio \o sAbc \o sWav,
      sAudio \o FormatInt(MaxIdx + 1) \o sOld \o sWav }

Directories ==
    {r \cup o : r \in RegularDirectories,
                o \in {x \in SUBSET ExtraFiles : Cardinality(x) <= MaxOdd}}

\* What an earlier run over a larger set of assets left in segments/.
StaleSegments == {SegmentName(k, s) : k \in 1..(MaxIdx + 1), s \in Suffixes}

StaleList(s) ==
    [exists |-> TRUE,
     lines |-> [k \in 1..(MaxIdx + 1) |-> ManifestLine(SegmentName(k, s))]]

NoList == [exists |-> FALSE, lines |-> <<>>]

\* ------------------------------------------------------------------ state

VARIABLES
    content,           \* what sys.argv[1] / cwd names: "dir", "file", "missing"
    files,             \* the file names directly under the content directory
    desktop,           \* whether /Users/geoffreycohen/Desktop exists
    scanOf,            \* find_max_segment_number(content_dir, s), per suffix s
    segfiles,          \* the .mp4 files under segments/
    manifest,          \* concat_list<suffix>.txt under segments/, per suffix
    made,              \* the directories this run created or found (mkdir)
    pc,                \* the position of the program
    cur,               \* audio_suffix of the variant main is working on
    i,                 \* the loop variable of process_language
    max_segment,       \* max_segment of process_language
    segments_created,  \* segments_created of process_language
    result,            \* what process_language returned, per suffix
    attempted,         \* the suffixes process_language was entered for
    mainMax,           \* what main's own scans returned (-1: not scanned)
    scans,             \* the number of calls of find_max_segment_number
    calls,             \* the subprocess.run calls made so far, in order
    written,           \* the suffixes whose concat list this run wrote
    exitCode           \* the exit code of the process (-1: still running)

vars ==
    <<content, files, desktop, scanOf, segfiles, manifest, made, pc, cur, i,
      max_segment, segments_created, result, attempted, mainMax, scans, calls,
      written, exitCode>>

env == <<content, files, desktop, scanOf>>

\* What only process_language's list writing changes.
lists == <<manifest, written>>

Init ==
    /\ content \in {"dir", "file", "missing"}
    /\ files \in (IF content = "dir" THEN Directories ELSE {{}})
    /\ desktop \in BOOLEAN
    /\ scanOf = [s \in Suffixes |-> find_max_segment_number(files, s)]
    /\ \E stale \in (IF content = "dir" THEN BOOLEAN ELSE {FALSE}) :
          /\ segfiles = (IF stale THEN StaleSegments ELSE {})
          /\ manifest = [s \in Suffixes |-> IF stale THEN StaleList(s) ELSE NoList]
    /\ made = {}
    /\ pc = "validate"
    /\ cur = NoSuffix
    /\ i = 0
    /\ max_segment = 0
    /\ segments_created = <<>>
    /\ result = [s \in Suffixes |-> "none"]
    /\ attempted = {}
    /\ mainMax = [s \in Suffixes |-> -1]
    /\ scans = 0
    /\ calls = <<>>
    /\ written = {}
    /\ exitCode = -1

\* sys.exit(code), or falling off the end of main (code 0).
Exit(code) == pc' = "done" /\ exitCode' = code

\* ------------------------------------------------------------------- main

\* Validate with the is_dir() test of line 175 left out.
ValidateExistsOnly ==
    /\ pc = "validate"
    /\ IF content = "missing" THEN Exit(1) ELSE pc' = "setup" /\ exitCode' = exitCode
    /\ UNCHANGED <<env, segfiles, lists, made, cur, i, max_segment,
                   segments_created, result, attempted, mainMax, scans, calls>>

\* Lines 168-177: the content directory is resolved and validated.
Validate ==
    /\ pc = "validate"
    /\ IF content # "dir" THEN Exit(1) ELSE pc' = "setup" /\ exitCode' = exitCode
    /\ UNCHANGED <<env, segfiles, lists, made, cur, i, max_segment,
                   segments_created, result, attempted, mainMax, scans, calls>>

\* Lines 180-197: the output directories (under the Desktop folder named
\* in the code) and the segments directory are created.
Setup ==
    /\ pc = "setup"
    /\ desktop
    /\ made' = {"Mandarin CI", "Spanish CI", "segments"}
    /\ cur' = NoSuffix
    /\ pc' = "main_scan"
    /\ UNCHANGED <<env, segfiles, lists, i, max_segment,
                   segments_created, result, attempted, mainMax, scans, calls,
                   exitCode>>

\* Line 184: mkdir is called without parents=True, so without the Desktop
\* folder it raises FileNotFoundError, which nothing catches: the process
\* ends with a traceback and exit code 1.
SetupFails ==
    /\ pc = "setup"
    /\ ~desktop
    /\ Exit(1)
    /\ UNCHANGED <<env, segfiles, lists, made, cur, i, max_segment,
                   segments_created, result, attempted, mainMax, scans, calls>>

\* Lines 202-209: after a variant, main goes on to the next one, and ends
\* (exit code 0) after the last.
AfterVariant ==
    IF cur = NoSuffix
    THEN cur' = EsSuffix /\ pc' = "main_scan" /\ exitCode' = exitCode
    ELSE cur' = cur /\ Exit(0)

\* Lines 200 and 205: main scans the variant, and skips it when the scan
\* finds nothing.
MainScan ==
    /\ pc = "main_scan"
    /\ scans' = scans + 1
    /\ mainMax' = [mainMax EXCEPT ![cur] = scanOf[cur]]
    /\ IF scanOf[cur] > 0
       THEN pc' = "process_language" /\ cur' = cur /\ exitCode' = exitCode
       ELSE AfterVariant
    /\ UNCHANGED <<env, segfiles, lists, made, i, max_segment,
                   segments_created, result, attempted, calls>>

\* Lines 201-202 and 206-207: process_language has returned.
Return ==
    /\ pc = "return"
    /\ AfterVariant
    /\ UNCHANGED <<env, segfiles, lists, made, i, max_segment,
                   segments_created, result, attempted, mainMax, scans, calls>>

\* ------------------------------------------------------- process_language

\* One subprocess.run call: what was asked of ffmpeg and how it ended
\* ("ok", "failed": CalledProcessError, "notfound": FileNotFoundError).
Call(kind, suffix, index, outcome) ==
    [kind |-> kind, suffix |-> suffix, index |-> index, outcome |-> outcome]

\* process_language returns `value` to main.
ReturnWith(value) ==
    /\ result' = [result EXCEPT ![cur] = value]
    /\ pc' = "return"

\* Lines 63-77: process_language is entered; it scans again and returns
\* False when it finds nothing.
Enter ==
    /\ pc = "process_language"
    /\ attempted' = attempted \cup {cur}
    /\ scans' = scans + 1
    /\ max_segment' = scanOf[cur]
    /\ segments_created' = <<>>
    /\ i' = 1
    /\ IF scanOf[cur] = 0
       THEN ReturnWith("False")
       ELSE pc' = "loop" /\ result' = result
    /\ UNCHANGED <<env, segfiles, lists, made, cur, mainMax, calls,
                   exitCode>>

\* SkipImage that gives the variant up (return False for continue).
SkipImageAborts ==
    /\ pc = "loop"
    /\ i <= max_segment
    /\ ImageName(i) \notin files
    /\ ReturnWith("False")
    /\ UNCHANGED <<env, segfiles, lists, made, cur, i, max_segment,
                   segments_created, attempted, mainMax, scans, calls, exitCode>>

\* SkipImage that does not move on to the next index.
SkipImageStuck ==
    /\ pc = "loop"
    /\ i <= max_segment
    /\ ImageName(i) \notin files
    /\ UNCHANGED vars

\* Lines 88-90: the image of index i is missing; the index is skipped.
SkipImage ==
    /\ pc = "loop"
    /\ i <= max_segment
    /\ ImageName(i) \notin files
    /\ i' = i + 1
    /\ UNCHANGED <<env, segfiles, lists, made, pc, cur, max_segment,
                   segments_created, result, attempted, mainMax, scans, calls,
                   exitCode>>

\* Lines 91-93: the audio of index i is missing; the index is skipped.
SkipAudio ==
    /\ pc = "loop"
    /\ i <= max_segment
    /\ ImageName(i) \in files
    /\ AudioName(i, cur) \notin files
    /\ i' = i + 1
    /\ UNCHANGED <<env, segfiles, lists, made, pc, cur, max_segment,
                   segments_created, result, attempted, mainMax, scans, calls,
                   exitCode>>

\* Lines 88-93 and 113: both inputs of index i exist, so ffmpeg is run.
CanBuild ==
    /\ pc = "loop"
    /\ i <= max_segment
    /\ ImageName(i) \in files
    /\ AudioName(i, cur) \in files

\* Lines 113-115 (run_ffmpeg_command, lines 22-28): ffmpeg made the segment.
SegmentOk ==
    /\ CanBuild
    /\ calls' = Append(calls, Call("segment", cur, i, "ok"))
    /\ segfiles' = segfiles \cup {SegmentName(i, cur)}
    /\ segments_created' = Append(segments_created, SegmentName(i, cur))
    /\ i' = i + 1
    /\ UNCHANGED <<env, lists, made, pc, cur, max_segment, result,
                   attempted, mainMax, scans, exitCode>>

\* SegmentFailed that ends the process, as a missing executable does.
SegmentFailedExits ==
    /\ CanBuild
    /\ calls' = Append(calls, Call("segment", cur, i, "failed"))
    /\ Exit(1)
    /\ UNCHANGED <<env, segfiles, lists, made, cur, i, max_segment,
                   segments_created, result, attempted, mainMax, scans>>

\* SegmentFailed that goes on with the next index (continue for return).
SegmentFailedContinues ==
    /\ CanBuild
    /\ calls' = Append(calls, Call("segment", cur, i, "failed"))
    /\ i' = i + 1
    /\ UNCHANGED <<env, segfiles, lists, made, pc, cur, max_segment,
                   segments_created, result, attempted, mainMax, scans, exitCode>>

\* Lines 116-118 (run_ffmpeg_command, lines 29-32): ffmpeg exited non-zero;
\* process_language returns False. ffmpeg may have written a file or not.
SegmentFailed ==
    /\ CanBuild
    /\ calls' = Append(calls, Call("segment", cur, i, "failed"))
    /\ \E left \in BOOLEAN :
          segfiles' = IF left THEN segfiles \cup {SegmentName(i, cur)} ELSE segfiles
    /\ ReturnWith("False")
    /\ UNCHANGED <<env, lists, made, cur, i, max_segment,
                   segments_created, attempted, mainMax, scans, exitCode>>

\* run_ffmpeg_command, lines 33-36: no ffmpeg executable is found when the
\* call is made; the process exits with code 1.
FfmpegNotFound(kind, index) ==
    /\ calls' = Append(calls, Call(kind, cur, index, "notfound"))
    /\ Exit(1)

SegmentNotFound ==
    /\ CanBuild
    /\ FfmpegNotFound("segment", i)
    /\ UNCHANGED <<env, segfiles, lists, made, cur, i, max_segment,
                   segments_created, result, attempted, mainMax, scans>>

\* NoSegments without the test of line 120: an empty list is written.
NoSegmentsIgnored ==
    /\ pc = "loop"
    /\ i > max_segment
    /\ segments_created = <<>>
    /\ manifest' = [manifest EXCEPT ![cur] = [exists |-> TRUE, lines |-> <<>>]]
    /\ written' = written \cup {cur}
    /\ pc' = "concat"
    /\ UNCHANGED <<env, segfiles, made, cur, i, max_segment, segments_created,
                   result, attempted, mainMax, scans, calls, exitCode>>

\* Lines 120-122: the loop is over and nothing was created.
NoSegments ==
    /\ pc = "loop"
    /\ i > max_segment
    /\ segments_created = <<>>
    /\ ReturnWith("False")
    /\ UNCHANGED <<env, segfiles, lists, made, cur, i, max_segment,
                   segments_created, attempted, mainMax, scans, calls, exitCode>>

\* WriteList that opens the list for appending ("a" for "w").
WriteListAppends ==
    /\ pc = "loop"
    /\ i > max_segment
    /\ segments_created # <<>>
    /\ manifest' = [manifest EXCEPT ![cur] =
          [exists |-> TRUE,
           lines |-> manifest[cur].lines \o
                     [k \in 1..Len(segments_created) |->
                        ManifestLine(segments_created[k])]]]
    /\ written' = written \cup {cur}
    /\ pc' = "concat"
    /\ UNCHANGED <<env, segfiles, made, cur, i, max_segment,
                   segments_created, result, attempted, mainMax, scans, calls,
                   exitCode>>

\* Lines 127-134: the concatenation list is written anew.
WriteList ==
    /\ pc = "loop"
    /\ i > max_segment
    /\ segments_created # <<>>
    /\ manifest' = [manifest EXCEPT ![cur] =
          [exists |-> TRUE,
           lines |-> [k \in 1..Len(segments_created) |->
                        ManifestLine(segments_created[k])]]]
    /\ written' = written \cup {cur}
    /\ pc' = "concat"
    /\ UNCHANGED <<env, segfiles, made, cur, i, max_segment,
                   segments_created, result, attempted, mainMax, scans, calls,
                   exitCode>>

\* Lines 139-161: ffmpeg concatenated the segments into the final output
\* (a file ffmpeg writes; the program only reports its size).
ConcatOk ==
    /\ pc = "concat"
    /\ calls' = Append(calls, Call("concat", cur, 0, "ok"))
    /\ ReturnWith("True")
    /\ UNCHANGED <<env, segfiles, lists, made, cur, i, max_segment,
                   segments_created, attempted, mainMax, scans, exitCode>>

\* Lines 162-165: the concatenation exited non-zero.
ConcatFailed ==
    /\ pc = "concat"
    /\ calls' = Append(calls, Call("concat", cur, 0, "failed"))
    /\ ReturnWith("False")
    /\ UNCHANGED <<env, segfiles, lists, made, cur, i, max_segment,
                   segments_created, attempted, mainMax, scans, exitCode>>

ConcatNotFound ==
    /\ pc = "concat"
    /\ FfmpegNotFound("concat", 0)
    /\ UNCHANGED <<env, segfiles, lists, made, cur, i, max_segment,
                   segments_created, result, attempted, mainMax, scans>>

\* ---------------------------------------------------------- specification

Next ==
    \/ Validate
    \/ Setup
    \/ SetupFails
    \/ MainScan
    \/ Return
    \/ Enter
    \/ SkipImage
    \/ SkipAudio
    \/ SegmentOk
    \/ SegmentFailed
    \/ SegmentNotFound
    \/ NoSegments
    \/ WriteList
    \/ ConcatOk
    \/ ConcatFailed
    \/ ConcatNotFound

Spec == Init /\ [][Next]_vars

\* The program is sequential and every call it makes returns, so a step
\* that can be taken is taken.
FairSpec == Spec /\ WF_vars(Next)

\* -------------------------------------------------------------- helpers

Done == pc = "done"

\* Both inputs of index k of variant s exist (lines 88 and 91).
HasBoth(k, s) == ImageName(k) \in files /\ AudioName(k, s) \in files

\* The positions in `calls` of the calls of one kind made for variant s.
CallsOf(kind, s) ==
    {n \in 1..Len(calls) : calls[n].kind = kind /\ calls[n].suffix = s}

\* The members of a finite set of integers, in ascending order.
RECURSIVE Ascending(_)
Ascending(S) ==
    IF S = {} THEN <<>>
    ELSE LET m == CHOOSE x \in S : \A y \in S : x <= y
         IN <<m>> \o Ascending(S \ {m})

\* The indices of the segments ffmpeg made for variant s in this run, in
\* the order in which it made them.
CreatedIndices(s) ==
    LET ok == {n \in CallsOf("segment", s) : calls[n].outcome = "ok"}
        at == Ascending(ok)
    IN [k \in 1..Len(at) |-> calls[at[k]].index]

\* process_language is at work on variant s.
Inside(s) == cur = s /\ pc \in {"process_language", "loop", "concat"}

\* The indices a file name of the convention can carry in this model.
IndexRange == 1..(MaxIdx + 2)

\* ----------------------------------------------------------------- claims

\* C1, as stated: when a run that passed the validation of the content
\* directory and set up its directories has ended, every variant whose scan
\* is > 0 has been attempted, whatever happened to the other variant (a
\* missing ffmpeg included).
C1_AllVariantsAttempted ==
    (Done /\ content = "dir" /\ desktop) =>
        \A s \in Suffixes :
            find_max_segment_number(files, s) > 0 => s \in attempted

\* An ffmpeg executable was missing at some call of the run.
NotFoundSeen == \E n \in 1..Len(calls) : calls[n].outcome = "notfound"

\* C1, amended: when a run that passed the validation and set up its
\* directories has ended and no call found the ffmpeg executable missing,
\* main has scanned both variants
\* and every variant whose scan is > 0 has been attempted, whether the
\* other variant failed for missing assets or for an ffmpeg call that
\* exited non-zero; a call that finds no ffmpeg executable is the last
\* thing the run does, and it ends the run with exit code 1.
C1_AttemptedUnlessNotFound ==
    /\ (Done /\ content = "dir" /\ desktop /\ ~NotFoundSeen) =>
          \A s \in Suffixes :
              /\ mainMax[s] # -1
              /\ mainMax[s] > 0 => s \in attempted
    /\ NotFoundSeen =>
          /\ Done
          /\ exitCode = 1
          /\ calls[Len(calls)].outcome = "notfound"
          /\ \A n \in 1..(Len(calls) - 1) : calls[n].outcome # "notfound"

\* The default variant failed on an ffmpeg call that exited non-zero and
\* the `_es` variant was attempted all the same.
C1_Witness ==
    /\ Done
    /\ \E n \in CallsOf("segment", NoSuffix) : calls[n].outcome = "failed"
    /\ result[NoSuffix] = "False"
    /\ EsSuffix \in attempted

C3_SegmentsAreThePairs ==
    \A s \in Suffixes :
        /\ (cur = s /\ pc \in {"loop", "concat"}) =>
              LET upto == IF i - 1 <= max_segment THEN i - 1 ELSE max_segment
                  want == Ascending({k \in 1..upto : HasBoth(k, s)})
              IN /\ segments_created =
                        [n \in 1..Len(want) |-> SegmentName(want[n], s)]
                 /\ CreatedIndices(s) = want
                 /\ Cardinality(CallsOf("segment", s)) = Len(want)
                 /\ pc = "concat" => upto = max_segment
        /\ (/\ result[s] # "none"
            /\ \A n \in CallsOf("segment", s) : calls[n].outcome = "ok") =>
              /\ CreatedIndices(s) = Ascending({k \in 1..mainMax[s] : HasBoth(k, s)})
              /\ Cardinality(CallsOf("segment", s)) = Len(CreatedIndices(s))

\* Indices 1 to 3 with image_2.png missing: the loop is over and the
\* segments of 1 and 3 were created, in that order.
C3_Witness ==
    /\ pc = "concat"
    /\ cur = NoSuffix
    /\ max_segment = 3
    /\ ImageName(2) \notin files
    /\ AudioName(2, NoSuffix) \in files
    /\ segments_created = <<SegmentName(1, NoSuffix), SegmentName(3, NoSuffix)>>

\* C4: a concat list written in this run holds one `file '<path>'` line
\* for each segment ffmpeg made for that variant in this run, in the order
\* in which they were made, which is strictly ascending in the index, and
\* no other line.
C4_ManifestListsCreated ==
    \A s \in written :
        LET made_ == CreatedIndices(s)
        IN /\ manifest[s].exists
           /\ manifest[s].lines =
                  [n \in 1..Len(made_) |-> ManifestLine(SegmentName(made_[n], s))]
           /\ \A a, b \in 1..Len(made_) : a < b => made_[a] < made_[b]
           /\ Len(made_) >= 1

\* The default variant's list was written over the list of an earlier run,
\* which named three segments, and now names segments 1 and 3 only.
C4_Witness ==
    /\ NoSuffix \in written
    /\ SegmentName(2, NoSuffix) \in segfiles
    /\ manifest[NoSuffix].lines =
          <<ManifestLine(SegmentName(1, NoSuffix)),
            ManifestLine(SegmentName(3, NoSuffix))>>

\* The largest index of an audio file of variant s that follows the
\* naming convention (audio_<i>.wav, audio_<i>_es.wav), or 0.
ConventionMax(dir, s) ==
    Max0({0} \cup {k \in IndexRange : AudioName(k, s) \in dir})

\* C5, as stated: each scan main has made returned the largest index of an
\* audio file that follows the variant's naming convention, or 0 when there
\* is none; other files do not change the result.
C5_ScanIsConventionMax ==
    \A s \in Suffixes :
        mainMax[s] # -1 => mainMax[s] = ConventionMax(files, s)

\* A name ends in `_es.wav`.
IsEsFile(f) == EndsWith(f, EsSuffix \o sWav)

\* main has just made its scan of the default variant (line 200).
DefaultScanned ==
    \/ cur = NoSuffix /\ pc = "process_language"
    \/ cur = EsSuffix /\ pc = "main_scan" /\ NoSuffix \notin attempted

\* C6: the default-variant scan of main is what it would be with every name that
\* ends in `_es.wav` removed from the directory, and when it is > 0 some
\* name that does not end in `_es.wav` carries that number.
C6_DefaultScanIgnoresEs ==
    DefaultScanned =>
        /\ mainMax[NoSuffix] =
              find_max_segment_number({f \in files : ~IsEsFile(f)}, NoSuffix)
        /\ mainMax[NoSuffix] > 0 =>
              \E f \in files : ~IsEsFile(f) /\ SegmentNum(f) = mainMax[NoSuffix]

\* audio_1.wav and audio_2.wav with audio_1_es.wav .. audio_3_es.wav: the
\* default-variant scan reported 2.
C6_Witness ==
    /\ DefaultScanned
    /\ files = {AudioName(1, NoSuffix), AudioName(2, NoSuffix),
                AudioName(1, EsSuffix), AudioName(2, EsSuffix),
                AudioName(3, EsSuffix)}
    /\ mainMax[NoSuffix] = 2

\* C7: when the content directory is missing or is not a directory, no
\* directory is created, no scan is made and ffmpeg is never called, and
\* the run ends with a non-zero exit code.
C7_InvalidContentDirIsFatal ==
    content # "dir" =>
        /\ made = {}
        /\ scans = 0
        /\ calls = <<>>
        /\ attempted = {}
        /\ pc \in {"validate", "done"}
        /\ Done => exitCode > 0

\* The run over a path that is a file, not a directory, has ended.
C7_Witness == content = "file" /\ Done /\ exitCode = 1

\* Some ffmpeg call of the given kind did not succeed.
SomeCallFailed(kind) ==
    \E n \in 1..Len(calls) : calls[n].kind = kind /\ calls[n].outcome # "ok"

\* C8, as stated: the exit code of a run that has ended is non-zero when
\* the content directory is missing or not a directory, when no audio file
\* is found at all, when a segment creation fails or when a concatenation
\* fails, and is 0 when every variant present was built.
C8_ExitCodeTellsFailure ==
    Done =>
        /\ (\/ content # "dir"
            \/ \A s \in Suffixes : find_max_segment_number(files, s) = 0
            \/ SomeCallFailed("segment")
            \/ SomeCallFailed("concat")) => exitCode # 0
        /\ (/\ content = "dir"
            /\ \E s \in Suffixes : result[s] = "True"
            /\ \A s \in Suffixes : result[s] # "False") => exitCode = 0

\* C9: an attempted variant, whose scan by main is > 0, but that has no index in 1..max with
\* both its image and its audio makes no ffmpeg call, has no concat list
\* written, and once process_language is over it has returned False.
C9_NoPairsFails ==
    \A s \in attempted :
        LET m == mainMax[s]
        IN (m > 0 /\ \A k \in 1..m : ~HasBoth(k, s)) =>
              /\ CallsOf("segment", s) = {}
              /\ CallsOf("concat", s) = {}
              /\ s \notin written
              /\ ~Inside(s) => result[s] = "False"

\* The default variant has audio for 1..3 and no image at all, and
\* process_language has returned False for it.
C9_Witness ==
    /\ pc = "return"
    /\ cur = NoSuffix
    /\ max_segment = 3
    /\ \A k \in 1..3 : AudioName(k, NoSuffix) \in files /\ ImageName(k) \notin files
    /\ result[NoSuffix] = "False"

\* ffmpeg has been called at most once per variant and index for a
\* segment and at most once per variant for the concatenation, and a
\* variant's concatenation call comes after all its segment calls, which
\* all succeeded.
C10_CallsOnceInOrder ==
    /\ \A a, b \in 1..Len(calls) :
          (/\ a # b
           /\ calls[a].kind = calls[b].kind
           /\ calls[a].suffix = calls[b].suffix) => calls[a].index # calls[b].index
    /\ \A s \in Suffixes : \A c \in CallsOf("concat", s) :
          \A n \in CallsOf("segment", s) : n < c /\ calls[n].outcome = "ok"

\* C10: every run ends, and at every moment of it ffmpeg has been called
\* at most once per variant and index for a segment, at most once per
\* variant for the concatenation, and for the concatenation only after all
\* the variant's segment calls succeeded.
C10_TerminatesCallingOnce == <>Done /\ []C10_CallsOnceInOrder

\* A run has ended in which both variants were concatenated, the default
\* one from three segments.
C10_Witness ==
    /\ Done
    /\ exitCode = 0
    /\ \A s \in Suffixes : Cardinality(CallsOf("concat", s)) = 1
    /\ Cardinality(CallsOf("segment", NoSuffix)) = 3

====
